---- MODULE Spec2Model ----
(***************************************************************************)
(* Model of the task store of todo-cli-node-v2:                            *)
(*   src/src/services/todoService.js   (class TodoService, lines 191-493)  *)
(*   src/src/services/storageService.js (class StorageService)             *)
(*                                                                         *)
(* The store keeps no collection in memory between operations: every       *)
(* operation reads the whole JSON data file, works on the parsed copy and  *)
(* writes the whole file back.  The state of the program is therefore the  *)
(* content of the data file; the clock is the environment input the        *)
(* operations read (Date.now(), new Date()).                               *)
(*                                                                         *)
(* JavaScript values:                                                      *)
(*   object            function from key names to values (a missing key is *)
(*                     a key outside DOMAIN)                               *)
(*   description, tag  sequences of characters, so that toLowerCase() and  *)
(*                     includes() are computed                             *)
(*   null              Null for description/tag, "null" for the fields     *)
(*                     whose values are modelled as TLA+ strings           *)
(*   undefined         Undefined and "undefined" in the same way           *)
(*   ISO timestamp     [iso |-> ms]                                        *)
(*                                                                         *)
(* Specifications:                                                         *)
(*   Spec       every operation of the store that writes, getById, getAll  *)
(*              and export                                                 *)
(*   SpecCore   the same without import, update called as the update       *)
(*              command calls it (description only)                        *)
(*   SpecQuery  filter and search over collections the store can hold      *)
(*   SpecStats  getStats over collections of pending and completed tasks   *)
(*   SpecStorage  the storage adapter: write, read, writeFile, readFile,   *)
(*              and a data file edited from outside                        *)
(*   SpecWrite  write and read of the data file, with writes that fail     *)
(*   SpecUpdate update with any fields, complete and uncomplete            *)
(*   SpecRace   create and update in two invocations on one data file      *)
(*   SpecRead   the six methods that only read                             *)
(***************************************************************************)
EXTENDS Integers, Sequences, FiniteSets, TLC

VARIABLES
    file,    \* content of the data file: the JSON array of task objects
    xfile,   \* content of the file at the path given to readFile / writeFile
    now,     \* the millisecond clock read by Date.now() / new Date()
    proc,    \* the invocations that run at the same time: for each, where it
             \* is and the outcome it computed from the collection it read
    last,    \* history: the last operation, its arguments and its outcome
    chain    \* history: the run create(T); complete(T.id); uncomplete(T.id),
             \* with the record T create returned and the one uncomplete did;
             \* or a run of clearCompleted calls; or what the storage wrote

vars == <<file, xfile, now, proc, last, chain>>

----------------------------------------------------------------------------
(* Bounds of the model *)

MaxTasks == 2
MaxClock == 2
MaxImport == 2
MaxStats == 8
MaxBlock == 40
MaxLarge == 201

----------------------------------------------------------------------------
(* Values *)

Null == <<"<null>">>
Undefined == <<"<undefined>">>

ISO(ms) == [iso |-> ms]

PRIORITY_HIGH == "high"
PRIORITY_MEDIUM == "medium"
PRIORITY_LOW == "low"

\* if (x) ... on a value modelled as a TLA+ string
TruthyS(x) == x \notin {"undefined", "null", ""}

\* if (x) ... on a value modelled as a sequence of characters
TruthyT(x) == x # Null /\ x # Undefined /\ x # <<>>

Has(o, k) == k \in DOMAIN o

\* o[k] for a key whose values are modelled as TLA+ strings
GetS(o, k) == IF Has(o, k) THEN o[k] ELSE "undefined"

\* o[k] for a key whose values are sequences of characters
GetT(o, k) == IF Has(o, k) THEN o[k] ELSE Undefined

\* o[k] for the boolean key
GetB(o, k) == IF Has(o, k) THEN o[k] ELSE FALSE

\* a destructured parameter with a default: the default applies when the key
\* is missing or its value is undefined
ParamS(o, k, default) ==
    IF GetS(o, k) # "undefined" THEN o[k] ELSE default

ParamT(o, k, default) ==
    IF GetT(o, k) # Undefined THEN o[k] ELSE default

\* { ...a, ...b }
Spread(a, b) == b @@ a

\* delete o[k]
DeleteKey(o, k) == [x \in (DOMAIN o) \ {k} |-> o[x]]

----------------------------------------------------------------------------
(* StorageService: the data file holds JSON.stringify(data, null, 2) *)

\* the keys whose values are modelled as TLA+ strings, and as sequences
StringKeys == {"priority", "dueDate"}
TextKeys == {"description", "tag"}

IsUndefined(o, k) ==
    \/ k \in StringKeys /\ o[k] = "undefined"
    \/ k \in TextKeys /\ o[k] = Undefined

\* mutant: the properties whose value is null are left out as well
StringifyObjectDropsNull(o) ==
    [k \in {x \in DOMAIN o : /\ ~IsUndefined(o, x)
                             /\ x \in StringKeys => o[x] # "null"
                             /\ x \in TextKeys => o[x] # Null} |-> o[k]]

\* JSON.stringify leaves out the properties whose value is undefined
StringifyObject(o) ==
    [k \in {x \in DOMAIN o : ~IsUndefined(o, x)} |-> o[k]]

Stringify(data) ==
    [json |-> [i \in 1..Len(data) |-> StringifyObject(data[i])]]

\* JSON.parse of a text that is valid JSON: of an array, or of another value
Parse(text) == IF Has(text, "json") THEN text.json ELSE text.value

\* no file at the path
Absent == [absent |-> TRUE]

\* StorageService.read
Read(f) == Parse(f)

\* StorageService.write: the new content of the data file
Write(data) == Stringify(data)

----------------------------------------------------------------------------
(* TodoService: each method as a function of the file content f, the clock  *)
(* t and its arguments.  The result is                                      *)
(*   [outcome, file, writes, res]                                           *)
(* outcome: "ok" or the error thrown; file: the file content afterwards;    *)
(* writes: the number of storage.write calls; res: the value returned.      *)

NoResult == [none |-> TRUE]

Throw(f, error) == [outcome |-> error, file |-> f, writes |-> 0, res |-> NoResult]

Return(f, n, value) == [outcome |-> "ok", file |-> f, writes |-> n, res |-> value]

\* TodoService.getAll
getAll(f) == Read(f)

\* mutant: the last record with the id is the one found
findLastIndex(todos, id) ==
    IF \E i \in 1..Len(todos) : todos[i].id = id
    THEN CHOOSE i \in 1..Len(todos) :
            /\ todos[i].id = id
            /\ \A j \in (i + 1)..Len(todos) : todos[j].id # id
    ELSE 0

\* todos.findIndex(t => t.id === id), with 0 for JavaScript's -1
findIndex(todos, id) ==
    IF \E i \in 1..Len(todos) : todos[i].id = id
    THEN CHOOSE i \in 1..Len(todos) :
            /\ todos[i].id = id
            /\ \A j \in 1..(i - 1) : todos[j].id # id
    ELSE 0

\* TodoService.getById
getById(f, id) ==
    LET todos == getAll(f)
        i == findIndex(todos, id)
    IN  IF i = 0 THEN Throw(f, "NotFound") ELSE Return(f, 0, todos[i])

\* mutant: the priority is stored as given, without the || default
NewTodoPriorityAsGiven(t, input) ==
    [id |-> t,
     description |-> input.description,
     completed |-> FALSE,
     priority |-> ParamS(input, "priority", PRIORITY_MEDIUM),
     dueDate |-> ParamS(input, "dueDate", "null"),
     tag |-> ParamT(input, "tag", Null),
     createdAt |-> ISO(t)]

\* the object literal of TodoService.create
NewTodo(t, input) ==
    LET priority == ParamS(input, "priority", PRIORITY_MEDIUM)
        normalizedPriority ==
            IF TruthyS(priority) THEN priority ELSE PRIORITY_MEDIUM
    IN  [id |-> t,
         description |-> input.description,
         completed |-> FALSE,
         priority |-> normalizedPriority,
         dueDate |-> ParamS(input, "dueDate", "null"),
         tag |-> ParamT(input, "tag", Null),
         createdAt |-> ISO(t)]

\* mutant: the new task is put in front
createPrepends(f, t, input) ==
    LET todos == getAll(f)
        newTodo == NewTodo(t, input)
    IN  Return(Write(<<newTodo>> \o todos), 1, newTodo)

\* TodoService.create
create(f, t, input) ==
    LET todos == getAll(f)
        newTodo == NewTodo(t, input)
    IN  Return(Write(Append(todos, newTodo)), 1, newTodo)

\* mutant: the record is rebuilt as a pending one before the fields are merged
updateResetsCompleted(f, t, id, updates) ==
    LET todos == getAll(f)
        todoIndex == findIndex(todos, id)
        oldTodo == todos[todoIndex]
        merged == Spread(Spread(Spread(oldTodo, [completed |-> FALSE]), updates),
                         [updatedAt |-> ISO(t)])
    IN  IF todoIndex = 0
        THEN Throw(f, "NotFound")
        ELSE Return(Write([todos EXCEPT ![todoIndex] = merged]), 1,
                    [old |-> oldTodo, updated |-> merged])

\* mutant: the fields of the stored record win over the updates
updateOldWins(f, t, id, updates) ==
    LET todos == getAll(f)
        todoIndex == findIndex(todos, id)
        oldTodo == todos[todoIndex]
        merged == Spread(Spread(updates, oldTodo), [updatedAt |-> ISO(t)])
    IN  IF todoIndex = 0
        THEN Throw(f, "NotFound")
        ELSE Return(Write([todos EXCEPT ![todoIndex] = merged]), 1,
                    [old |-> oldTodo, updated |-> merged])

\* TodoService.update
update(f, t, id, updates) ==
    LET todos == getAll(f)
        todoIndex == findIndex(todos, id)
        oldTodo == todos[todoIndex]
        merged == Spread(Spread(oldTodo, updates), [updatedAt |-> ISO(t)])
    IN  IF todoIndex = 0
        THEN Throw(f, "NotFound")
        ELSE Return(Write([todos EXCEPT ![todoIndex] = merged]), 1,
                    [old |-> oldTodo, updated |-> merged])

\* todos.splice(i, 1)
Splice(todos, i) ==
    [j \in 1..(Len(todos) - 1) |-> IF j < i THEN todos[j] ELSE todos[j + 1]]

\* mutant: no check of the index, so that splice(-1, 1) takes out the last
deleteUnchecked(f, id) ==
    LET todos == getAll(f)
        todoIndex == findIndex(todos, id)
        at == IF todoIndex = 0 THEN Len(todos) ELSE todoIndex
    IN  IF Len(todos) = 0
        THEN Return(Write(todos), 1, NoResult)
        ELSE Return(Write(Splice(todos, at)), 1, todos[at])

\* mutant: the last record is the one removed
deleteTail(f, id) ==
    LET todos == getAll(f)
        todoIndex == findIndex(todos, id)
    IN  IF todoIndex = 0
        THEN Throw(f, "NotFound")
        ELSE Return(Write(Splice(todos, Len(todos))), 1, todos[todoIndex])

\* TodoService.delete
delete(f, id) ==
    LET todos == getAll(f)
        todoIndex == findIndex(todos, id)
    IN  IF todoIndex = 0
        THEN Throw(f, "NotFound")
        ELSE Return(Write(Splice(todos, todoIndex)), 1, todos[todoIndex])

\* mutant: no check of the completed flag
completeUnguarded(f, t, id) ==
    LET found == getById(f, id)
    IN  IF found.outcome # "ok" THEN found
        ELSE update(f, t, id, [completed |-> TRUE, completedAt |-> ISO(t)])

\* TodoService.complete
complete(f, t, id) ==
    LET found == getById(f, id)
    IN  IF found.outcome # "ok" THEN found
        ELSE IF GetB(found.res, "completed")
        THEN Throw(f, "AlreadyCompleted")
        ELSE update(f, t, id, [completed |-> TRUE, completedAt |-> ISO(t)])

\* mutant: the second write stores the array whose record lost completedAt
uncompleteWritesModified(f, t, id) ==
    LET found == getById(f, id)
        updated == update(f, t, id, [completed |-> FALSE])
        todos == getAll(updated.file)
        todoIndex == findIndex(todos, id)
        cleaned == DeleteKey(updated.res.updated, "completedAt")
    IN  IF found.outcome # "ok" THEN found
        ELSE IF ~GetB(found.res, "completed")
        THEN Throw(f, "NotCompleted")
        ELSE IF updated.outcome # "ok" THEN updated
        ELSE Return(Write([todos EXCEPT ![todoIndex] = cleaned]), 2,
                    [old |-> updated.res.old, updated |-> cleaned])

\* TodoService.uncomplete: update writes the merged collection; the delete
\* acts on the returned object only; the second write stores what a fresh
\* read of the file returns
uncomplete(f, t, id) ==
    LET found == getById(f, id)
        updated == update(f, t, id, [completed |-> FALSE])
    IN  IF found.outcome # "ok" THEN found
        ELSE IF ~GetB(found.res, "completed")
        THEN Throw(f, "NotCompleted")
        ELSE IF updated.outcome # "ok" THEN updated
        ELSE Return(Write(getAll(updated.file)), 2,
                    [old |-> updated.res.old,
                     updated |-> DeleteKey(updated.res.updated, "completedAt")])

\* mutant: the completed tasks are the ones written back
clearCompletedKeepsCompleted(f) ==
    LET todos == getAll(f)
        completedTasks == SelectSeq(todos, LAMBDA x : GetB(x, "completed"))
        remainingTasks == SelectSeq(todos, LAMBDA x : ~GetB(x, "completed"))
    IN  Return(Write(completedTasks), 1,
               [cleared |-> Len(completedTasks),
                remaining |-> Len(remainingTasks)])

\* mutant: cleared counts every task
clearCompletedCountsAll(f) ==
    LET todos == getAll(f)
        completedTasks == SelectSeq(todos, LAMBDA x : GetB(x, "completed"))
        remainingTasks == SelectSeq(todos, LAMBDA x : ~GetB(x, "completed"))
    IN  Return(Write(remainingTasks), 1,
               [cleared |-> Len(todos),
                remaining |-> Len(remainingTasks)])

\* TodoService.clearCompleted
clearCompleted(f) ==
    LET todos == getAll(f)
        completedTasks == SelectSeq(todos, LAMBDA x : GetB(x, "completed"))
        remainingTasks == SelectSeq(todos, LAMBDA x : ~GetB(x, "completed"))
    IN  Return(Write(remainingTasks), 1,
               [cleared |-> Len(completedTasks),
                remaining |-> Len(remainingTasks)])

\* mutant: the imported records come first
importPrepends(f, tasks) ==
    LET currentTodos == getAll(f)
        mergedTodos == tasks.items \o currentTodos
    IN  IF tasks.kind # "array"
        THEN Throw(f, "InvalidImport")
        ELSE Return(Write(mergedTodos), 1,
                    [imported |-> Len(tasks.items), total |-> Len(mergedTodos)])

\* mutant: no Array.isArray test; what is not an array adds no record
importUnchecked(f, tasks) ==
    LET currentTodos == getAll(f)
        items == IF tasks.kind = "array" THEN tasks.items ELSE <<>>
        mergedTodos == currentTodos \o items
    IN  Return(Write(mergedTodos), 1,
               [imported |-> Len(items), total |-> Len(mergedTodos)])

\* TodoService.import; Array.isArray(tasks) is tasks.kind = "array"
import(f, tasks) ==
    LET currentTodos == getAll(f)
        mergedTodos == currentTodos \o tasks.items
    IN  IF tasks.kind # "array"
        THEN Throw(f, "InvalidImport")
        ELSE Return(Write(mergedTodos), 1,
                    [imported |-> Len(tasks.items), total |-> Len(mergedTodos)])

\* the subsequence of s at the indexes in keep
RECURSIVE Sub(_, _, _)
Sub(s, keep, i) ==
    IF i > Len(s) THEN <<>>
    ELSE (IF i \in keep THEN <<s[i]>> ELSE <<>>) \o Sub(s, keep, i + 1)

\* mutant: the tag test hangs on the priority test with an else
filterTagElse(f, filters) ==
    LET completed == GetB(filters, "completed")
        pending == GetB(filters, "pending")
        priority == ParamS(filters, "priority", "null")
        tag == ParamT(filters, "tag", Null)
        todos0 == getAll(f)
        todos1 == IF completed = TRUE
                  THEN SelectSeq(todos0, LAMBDA x : GetB(x, "completed"))
                  ELSE IF pending = TRUE
                  THEN SelectSeq(todos0, LAMBDA x : ~GetB(x, "completed"))
                  ELSE todos0
        todos2 == IF TruthyS(priority)
                  THEN SelectSeq(todos1, LAMBDA x : GetS(x, "priority") = priority)
                  ELSE IF TruthyT(tag)
                  THEN SelectSeq(todos1, LAMBDA x : GetT(x, "tag") = tag)
                  ELSE todos1
    IN  Return(f, 0, todos2)

\* mutant: pending is tested before completed
filterPendingFirst(f, filters) ==
    LET completed == GetB(filters, "completed")
        pending == GetB(filters, "pending")
        priority == ParamS(filters, "priority", "null")
        tag == ParamT(filters, "tag", Null)
        todos0 == getAll(f)
        todos1 == IF pending = TRUE
                  THEN SelectSeq(todos0, LAMBDA x : ~GetB(x, "completed"))
                  ELSE IF completed = TRUE
                  THEN SelectSeq(todos0, LAMBDA x : GetB(x, "completed"))
                  ELSE todos0
        todos2 == IF TruthyS(priority)
                  THEN SelectSeq(todos1, LAMBDA x : GetS(x, "priority") = priority)
                  ELSE todos1
        todos3 == IF TruthyT(tag)
                  THEN SelectSeq(todos2, LAMBDA x : GetT(x, "tag") = tag)
                  ELSE todos2
    IN  Return(f, 0, todos3)

\* TodoService.filter; a filter left out or null is a missing key
filter(f, filters) ==
    LET completed == GetB(filters, "completed")
        pending == GetB(filters, "pending")
        priority == ParamS(filters, "priority", "null")
        tag == ParamT(filters, "tag", Null)
        todos0 == getAll(f)
        todos1 == IF completed = TRUE
                  THEN SelectSeq(todos0, LAMBDA x : GetB(x, "completed"))
                  ELSE IF pending = TRUE
                  THEN SelectSeq(todos0, LAMBDA x : ~GetB(x, "completed"))
                  ELSE todos0
        todos2 == IF TruthyS(priority)
                  THEN SelectSeq(todos1, LAMBDA x : GetS(x, "priority") = priority)
                  ELSE todos1
        todos3 == IF TruthyT(tag)
                  THEN SelectSeq(todos2, LAMBDA x : GetT(x, "tag") = tag)
                  ELSE todos2
    IN  Return(f, 0, todos3)

\* String.prototype.toLowerCase over the letters of the model
Lower(c) == CASE c = "A" -> "a" [] c = "B" -> "b" [] OTHER -> c

toLowerCase(s) == [i \in 1..Len(s) |-> Lower(s[i])]

\* String.prototype.includes
includes(s, k) ==
    \E off \in 0..(Len(s) - Len(k)) : SubSeq(s, off + 1, off + Len(k)) = k

\* mutant: the keyword is matched as typed
searchKeywordAsTyped(f, keyword) ==
    LET todos == getAll(f)
        searchTerm == keyword
    IN  Return(f, 0, SelectSeq(todos, LAMBDA x :
            \/ includes(toLowerCase(x.description), searchTerm)
            \/ /\ TruthyT(GetT(x, "tag"))
               /\ includes(toLowerCase(x.tag), searchTerm)))

\* TodoService.search
search(f, keyword) ==
    LET todos == getAll(f)
        searchTerm == toLowerCase(keyword)
    IN  Return(f, 0, SelectSeq(todos, LAMBDA x :
            \/ includes(toLowerCase(x.description), searchTerm)
            \/ /\ TruthyT(GetT(x, "tag"))
               /\ includes(toLowerCase(x.tag), searchTerm)))

\* mutant: export writes the collection back
exportWrites(f) == Return(Write(getAll(f)), 1, getAll(f))

\* TodoService.export
export(f) == Return(f, 0, getAll(f))

\* MESSAGES.MOTIVATIONAL
MOTIVATIONAL ==
    [PERFECT |-> "Amazing! All tasks completed!",
     GREAT   |-> "Great progress! Keep it up!",
     HALFWAY |-> "You're halfway there!",
     GOOD    |-> "Good start! Keep going!",
     START   |-> "Every journey starts with a single step!",
     BEGIN   |-> "Time to start checking off those tasks!"]

\* JavaScript numbers are IEEE 754 doubles: completed / total is rounded to
\* a double and so is its product with 100.  For these pairs (completed,
\* total), the only ones with total <= MaxLarge + 1, the exact value is
\* k + 1/2 and the double is the one just below it (23 / 40 * 100 gives
\* 57.49999999999999); for every other pair the double lies on the same
\* side of the halves as the exact value.
BelowHalf ==
    {<<23, 40>>, <<46, 80>>, <<69, 120>>, <<92, 160>>,
     <<29, 200>>, <<57, 200>>, <<113, 200>>, <<115, 200>>}

\* Math.round((completed / total) * 100), total > 0: floor(x + 1/2) of the
\* double x
MathRound(completed, total) ==
    IF <<completed, total>> \in BelowHalf
    THEN (100 * completed) \div total
    ELSE (200 * completed + total) \div (2 * total)

\* mutant: the halfway test comes before the great test
motivationalHalfwayFirst(percentage) ==
    CASE percentage = 100 -> MOTIVATIONAL.PERFECT
      [] percentage # 100 /\ percentage >= 50 -> MOTIVATIONAL.HALFWAY
      [] percentage < 50 /\ percentage >= 25 -> MOTIVATIONAL.GOOD
      [] percentage < 25 /\ percentage > 0 -> MOTIVATIONAL.START
      [] OTHER -> MOTIVATIONAL.BEGIN

\* the switch (true) of getStats: the first case that holds is taken
motivationalMessage(percentage) ==
    IF percentage = 100 THEN MOTIVATIONAL.PERFECT
    ELSE IF percentage >= 75 THEN MOTIVATIONAL.GREAT
    ELSE IF percentage >= 50 THEN MOTIVATIONAL.HALFWAY
    ELSE IF percentage >= 25 THEN MOTIVATIONAL.GOOD
    ELSE IF percentage > 0 THEN MOTIVATIONAL.START
    ELSE MOTIVATIONAL.BEGIN

\* TodoService.getStats
getStats(f) ==
    LET todos == getAll(f)
        total == Len(todos)
        completed == Len(SelectSeq(todos, LAMBDA x : GetB(x, "completed")))
        pending == total - completed
        percentage == IF total > 0 THEN MathRound(completed, total) ELSE 0
    IN  Return(f, 0, [total |-> total,
                      completed |-> completed,
                      pending |-> pending,
                      percentage |-> percentage,
                      motivationalMessage |-> motivationalMessage(percentage)])

----------------------------------------------------------------------------
(* Arguments the operations are called with *)

D1 == <<"a", "B">>
D2 == <<"b">>
TagA == <<"a">>

\* what the add command and the tests pass to create
CreateInputs ==
    {[description |-> D1]}
    \cup {[description |-> D1, priority |-> p] : p \in {"undefined", "null", ""}}
    \cup {[description |-> D2, priority |-> PRIORITY_HIGH,
           dueDate |-> "2026-01-01", tag |-> TagA, completed |-> TRUE]}

\* the update command passes { description }; the store takes any fields
DescriptionUpdates == {[description |-> D2]}
UpdateInputs == DescriptionUpdates \cup {[completed |-> TRUE]}

\* an id no task has: the tests look up 999 in a store that never holds it
AbsentId == 999

\* the ids the operations are called with: every id in use, and one that is not
IdArgs(todos) == {todos[i].id : i \in 1..Len(todos)} \cup {AbsentId}

\* records of an import file, as in the tests: no priority, no timestamps
ImportTasks ==
    {[id |-> 1, description |-> D1, completed |-> FALSE],
     [id |-> 1, description |-> D2, completed |-> TRUE]}

SeqsUpTo(S, n) == UNION {[1..k -> S] : k \in 0..n}

ImportInputs ==
    {[kind |-> "array", items |-> items] : items \in SeqsUpTo(ImportTasks, MaxImport)}
    \cup {[kind |-> "string"], [kind |-> "object"]}

----------------------------------------------------------------------------
(* StorageService methods with their failures, in the form of the results *)
(* above; x is the content of the file at the given path                   *)

\* a text JSON.parse accepts
ValidJSON(text) == Has(text, "json") \/ Has(text, "value")

\* StorageService.read: what JSON.parse gives, whatever its type
read(f) ==
    IF ValidJSON(f) THEN Return(f, 0, Parse(f)) ELSE Throw(f, "StorageError")

\* StorageService.write
write(f, data) == Return(Write(data), 1, TRUE)

\* StorageService.readFile
readFile(x) ==
    IF ValidJSON(x) THEN Return(x, 0, Parse(x)) ELSE Throw(x, "StorageError")

\* StorageService.writeFile
writeFile(x, data) == Return(Stringify(data), 1, TRUE)

----------------------------------------------------------------------------
(* The state machine *)

NoChain == [stage |-> 0, T |-> NoResult, updated |-> NoResult]

\* two invocations of the program on the same data file
Procs == {"A", "B"}

Idle == [pc |-> "idle", op |-> "none", id |-> 0, arg |-> NoResult,
         t |-> 0, r |-> NoResult]

NoProcs == [p \in Procs |-> Idle]

Init ==
    /\ file = Write(<<>>)        \* StorageService.initializeStorage
    /\ xfile = Absent
    /\ proc = NoProcs
    /\ now = 1
    /\ last = [op |-> "init", id |-> 0, arg |-> NoResult,
               outcome |-> "ok", writes |-> 0, res |-> NoResult]
    /\ chain = NoChain

Stored == Parse(file)

\* the outcome r of operation op becomes the state
Done(op, id, arg, r) ==
    /\ file' = r.file
    /\ xfile' = xfile
    /\ proc' = proc
    /\ last' = [op |-> op, id |-> id, arg |-> arg,
                outcome |-> r.outcome, writes |-> r.writes, res |-> r.res]
    /\ now' = now

\* the clock advances between two operations
Tick ==
    /\ now < MaxClock
    /\ now' = now + 1
    /\ UNCHANGED <<file, xfile, proc, last, chain>>

CreateWith(input) ==
    /\ Len(Stored) < MaxTasks
    /\ LET r == create(file, now, input)
       IN  /\ Done("create", 0, input, r)
           /\ chain' = [stage |-> 1, T |-> r.res, updated |-> NoResult]

Create == \E input \in CreateInputs : CreateWith(input)

UpdateWith(id, updates) ==
    /\ Done("update", id, updates, update(file, now, id, updates))
    /\ chain' = NoChain

Update ==
    \E id \in IdArgs(Stored), updates \in UpdateInputs : UpdateWith(id, updates)

\* the update command: update(id, { description })
UpdateDescription ==
    \E id \in IdArgs(Stored), updates \in DescriptionUpdates : UpdateWith(id, updates)

Delete ==
    \E id \in IdArgs(Stored) :
        LET r == delete(file, id)
        IN  /\ Done("delete", id, NoResult, r)
            /\ chain' = NoChain

Complete ==
    \E id \in IdArgs(Stored) :
        LET r == complete(file, now, id)
        IN  /\ Done("complete", id, NoResult, r)
                    /\ chain' = IF chain.stage = 1 /\ chain.T.id = id /\ r.outcome = "ok"
                         THEN [chain EXCEPT !.stage = 2] ELSE NoChain

Uncomplete ==
    \E id \in IdArgs(Stored) :
        LET r == uncomplete(file, now, id)
        IN  /\ Done("uncomplete", id, NoResult, r)
                    /\ chain' = IF chain.stage = 2 /\ chain.T.id = id /\ r.outcome = "ok"
                         THEN [stage |-> 3, T |-> chain.T, updated |-> r.res.updated]
                         ELSE NoChain

\* chain records a run of clearCompleted calls: stage 4 after one call, 5
\* after two or more in a row; T is the last call (its result, the number of
\* completed tasks it found, the file it left) and updated the call before it
ClearCompleted ==
    LET r == clearCompleted(file)
        call == [res |-> r.res,
                 completed |-> Cardinality({i \in 1..Len(Stored) :
                                               GetB(Stored[i], "completed")}),
                 file |-> r.file]
    IN  /\ Done("clearCompleted", 0, NoResult, r)
        /\ chain' = IF last.op = "clearCompleted"
                    THEN [stage |-> 5, T |-> call, updated |-> chain.T]
                    ELSE [stage |-> 4, T |-> call, updated |-> NoResult]

Import ==
    \E tasks \in ImportInputs :
        /\ tasks.kind = "array" => Len(Stored) + Len(tasks.items) <= MaxTasks
        /\ LET r == import(file, tasks)
           IN  /\ Done("import", 0, tasks, r)
               /\ chain' = NoChain

GetById ==
    \E id \in IdArgs(Stored) :
        /\ Done("getById", id, NoResult, getById(file, id))
        /\ chain' = IF chain.stage \in {4, 5} THEN NoChain ELSE chain

GetAll ==
    /\ Done("getAll", 0, NoResult, Return(file, 0, getAll(file)))
    /\ chain' = IF chain.stage \in {4, 5} THEN NoChain ELSE chain

Export ==
    /\ Done("export", 0, NoResult, export(file))
    /\ chain' = IF chain.stage \in {4, 5} THEN NoChain ELSE chain

Next ==
    \/ Tick
    \/ Create
    \/ Update
    \/ Delete
    \/ Complete
    \/ Uncomplete
    \/ ClearCompleted
    \/ Import
    \/ GetById
    \/ GetAll
    \/ Export

Spec == Init /\ [][Next]_vars

\* the store as the commands other than import drive it
NextCore ==
    \/ Tick
    \/ Create
    \/ UpdateDescription
    \/ Delete
    \/ Complete
    \/ Uncomplete
    \/ ClearCompleted
    \/ GetById

SpecCore == Init /\ [][NextCore]_vars

----------------------------------------------------------------------------
(* The queries, over collections the store can hold *)

EmptyObject == [k \in {} |-> TRUE]

\* inputs of create that tell the filters apart
QueryCreateInputs ==
    CreateInputs
    \cup {[description |-> D1, priority |-> PRIORITY_HIGH],
          [description |-> D2, tag |-> TagA]}

\* the record x as complete stores it
StoredCompleted(x) == Parse(complete(Write(<<x>>), x.id, x.id).file)[1]

\* tasks as create, complete and import store them
QueryTasks ==
    LET created == {NewTodo(t, input) : t \in 1..MaxClock, input \in QueryCreateInputs}
    IN  created
        \cup {StoredCompleted(x) : x \in {y \in created : y.id = 1}}
        \cup ImportTasks
        \cup {[id |-> 1, description |-> D2, completed |-> FALSE, tag |-> <<"A">>]}

FilterInputs ==
    {c @@ p @@ pr @@ tg :
        c \in {EmptyObject} \cup {[completed |-> b] : b \in BOOLEAN},
        p \in {EmptyObject, [pending |-> TRUE]},
        pr \in {EmptyObject, [priority |-> ""], [priority |-> PRIORITY_HIGH]},
        tg \in {EmptyObject, [tag |-> TagA]}}

Keywords ==
    {<<"a">>, <<"A">>, <<"b">>, <<"B">>, <<"a", "b">>, <<"A", "B">>, <<"c">>}

InitQuery ==
    /\ file \in {Write(c) : c \in SeqsUpTo(QueryTasks, MaxTasks)}
    /\ xfile = Absent
    /\ proc = NoProcs
    /\ now = MaxClock
    /\ last = [op |-> "init", id |-> 0, arg |-> NoResult,
               outcome |-> "ok", writes |-> 0, res |-> NoResult]
    /\ chain = NoChain

Filter ==
    \E filters \in FilterInputs :
        /\ Done("filter", 0, filters, filter(file, filters))
        /\ UNCHANGED chain

Search ==
    \E keyword \in Keywords :
        /\ Done("search", 0, keyword, search(file, keyword))
        /\ UNCHANGED chain

NextQuery ==
    \/ Filter
    \/ Search

SpecQuery == InitQuery /\ [][NextQuery]_vars

----------------------------------------------------------------------------
(* The statistics, over collections of pending and completed tasks *)

\* a pending task and the same task completed
StatsTasks ==
    LET x == NewTodo(1, [description |-> D1])
    IN  {x, StoredCompleted(x)}

\* n tasks of which the first c are completed
Block(c, n) ==
    LET x == NewTodo(1, [description |-> D1])
    IN  [i \in 1..n |-> IF i <= c THEN StoredCompleted(x) ELSE x]

\* every mix of pending and completed tasks up to MaxStats tasks; every
\* number of completed tasks up to MaxBlock tasks; one task completed and one
\* task pending up to MaxLarge tasks
StatsCollections(mixed, block, large) ==
    SeqsUpTo(StatsTasks, mixed)
    \cup {Block(c, n) : c \in 0..block, n \in 1..block}
    \cup {Block(1, n) : n \in 1..large}
    \cup {Block(n - 1, n) : n \in 1..large}

InitStats ==
    /\ file \in {Write(c) : c \in StatsCollections(MaxStats, MaxBlock, MaxLarge)}
    /\ xfile = Absent
    /\ proc = NoProcs
    /\ now = MaxClock
    /\ last = [op |-> "init", id |-> 0, arg |-> NoResult,
               outcome |-> "ok", writes |-> 0, res |-> NoResult]
    /\ chain = NoChain

GetStats ==
    /\ Done("getStats", 0, NoResult, getStats(file))
    /\ UNCHANGED chain

NextStats == GetStats

SpecStats == InitStats /\ [][NextStats]_vars

----------------------------------------------------------------------------
(* The methods that only read, over collections the store can hold *)

\* a pending task, the same task completed, and the imported records
ReadTasks == StatsTasks \cup ImportTasks

InitRead ==
    /\ file \in {Write(c) : c \in SeqsUpTo(ReadTasks, MaxTasks)}
    /\ xfile = Absent
    /\ proc = NoProcs
    /\ now = MaxClock
    /\ last = [op |-> "init", id |-> 0, arg |-> NoResult,
               outcome |-> "ok", writes |-> 0, res |-> NoResult]
    /\ chain = NoChain

NextRead ==
    \/ GetAll
    \/ GetById
    \/ Filter
    \/ Search
    \/ GetStats
    \/ Export

SpecRead == InitRead /\ [][NextRead]_vars

----------------------------------------------------------------------------
(* The storage adapter on its own: collections written and read back, and   *)
(* a data file whose content was put there by something else                *)

\* task objects as the store hands them to write; create({}) leaves the
\* description undefined
StorageRecords ==
    LET x == NewTodo(1, [description |-> D1])
    IN  {x, StoredCompleted(x), NewTodo(2, [description |-> Undefined])}

StorageCollections == SeqsUpTo(StorageRecords, MaxTasks)

\* contents that are not a JSON array: a truncated text, {} and "invalid"
ForeignTexts ==
    {[text |-> "{"], [value |-> [kind |-> "object"]], [value |-> [kind |-> "string"]]}

Unknown == [known |-> FALSE, data |-> <<>>]

Written(data) == [known |-> TRUE, data |-> data]

\* chain.T is what write last put in the data file, chain.updated what
\* writeFile last put in the other file
InitStorage ==
    /\ file = Write(<<>>)        \* StorageService.initializeStorage
    /\ xfile = Absent
    /\ proc = NoProcs
    /\ now = 1
    /\ last = [op |-> "init", id |-> 0, arg |-> NoResult,
               outcome |-> "ok", writes |-> 0, res |-> NoResult]
    /\ chain = [stage |-> 6, T |-> Written(<<>>), updated |-> Unknown]

\* the outcome r of a method on the file at the other path
DoneFile(op, r) ==
    /\ xfile' = r.file
    /\ file' = file
    /\ proc' = proc
    /\ last' = [op |-> op, id |-> 0, arg |-> NoResult,
                outcome |-> r.outcome, writes |-> r.writes, res |-> r.res]
    /\ now' = now

StorageWrite ==
    \E data \in StorageCollections :
        /\ Done("write", 0, NoResult, write(file, data))
        /\ chain' = [chain EXCEPT !.T = Written(data)]

StorageRead ==
    /\ Done("read", 0, NoResult, read(file))
    /\ UNCHANGED chain

StorageWriteFile ==
    \E data \in StorageCollections :
        /\ DoneFile("writeFile", writeFile(xfile, data))
        /\ chain' = [chain EXCEPT !.updated = Written(data)]

StorageReadFile ==
    /\ DoneFile("readFile", readFile(xfile))
    /\ UNCHANGED chain

\* fs.writeFileSync opens the file with flag 'w', which empties it, and then
\* writes the text; when it fails the file is as it was (the open was
\* refused), empty, or holds the part of the text written so far
FailedWriteTexts(f, data) == {f, [text |-> ""], [text |-> "[ {"]}

\* StorageService.write when writeFileSync throws; last.arg keeps the content
\* before the call and the collection given
StorageWriteFails ==
    \E data \in StorageCollections :
        \E text \in FailedWriteTexts(file, data) :
            /\ Done("write", 0, [prior |-> file, data |-> data],
                    Throw(text, "StorageError"))
            /\ chain' = [chain EXCEPT !.T = Unknown]

\* the data file is edited from outside the program
ExternalEdit ==
    \E text \in ForeignTexts :
        /\ Done("edit", 0, NoResult, Return(text, 0, NoResult))
        /\ chain' = [chain EXCEPT !.T = Unknown]

NextStorage ==
    \/ StorageWrite
    \/ StorageRead
    \/ StorageWriteFile
    \/ StorageReadFile
    \/ ExternalEdit

SpecStorage == InitStorage /\ [][NextStorage]_vars

\* the data file alone, with writes that fail
NextWrite ==
    \/ StorageWrite
    \/ StorageRead
    \/ StorageWriteFails

SpecWrite == InitStorage /\ [][NextWrite]_vars

----------------------------------------------------------------------------
(* update as the class offers it: any fields can be given *)

\* updates(id, updates) merges whatever fields updates holds
FieldUpdates ==
    DescriptionUpdates \cup {[createdAt |-> ISO(MaxClock + 1)], [id |-> AbsentId]}

UpdateTasks ==
    LET x == NewTodo(1, [description |-> D1])
    IN  {x, NewTodo(2, [description |-> D2])}

InitUpdate ==
    /\ file \in {Write(c) : c \in SeqsUpTo(UpdateTasks, MaxTasks)}
    /\ xfile = Absent
    /\ proc = NoProcs
    /\ now = MaxClock
    /\ last = [op |-> "init", id |-> 0, arg |-> NoResult,
               outcome |-> "ok", writes |-> 0, res |-> NoResult]
    /\ chain = NoChain

UpdateFields ==
    \E id \in IdArgs(Stored), updates \in FieldUpdates : UpdateWith(id, updates)

NextUpdate ==
    \/ UpdateFields
    \/ Complete
    \/ Uncomplete

SpecUpdate == InitUpdate /\ [][NextUpdate]_vars

----------------------------------------------------------------------------
(* Two invocations on one data file.  A mutating method reads the whole     *)
(* file (getAll), works on the parsed copy and writes the whole file; the   *)
(* other invocation can run between the read and the write.                 *)

\* the method an invocation runs, on the file content f it read at time t
Apply(pend, f, t) ==
    IF pend.op = "create" THEN create(f, t, pend.arg)
    ELSE update(f, t, pend.id, pend.arg)

\* mutant: the write stores the method's outcome on the current content
writtenOnCurrent(f, pend) == Apply(pend, f, pend.t).file

\* this.storage.write(todos): the content written is the one computed from
\* the collection that was read, whatever the file holds by now
written(f, pend) == pend.r.file

RaceCreateInputs == {[description |-> D1], [description |-> D2]}

\* chain.T keeps the content at the start and the order of the steps
InitRace ==
    /\ file \in {Write(<<>>), Write(<<NewTodo(1, [description |-> D1])>>)}
    /\ xfile = Absent
    /\ now = 1
    /\ proc = NoProcs
    /\ last = [op |-> "init", id |-> 0, arg |-> NoResult,
               outcome |-> "ok", writes |-> 0, res |-> NoResult]
    /\ chain = [stage |-> 7, T |-> [file |-> file, order |-> <<>>],
                updated |-> NoResult]

\* the invocation reads the file and computes; a method that throws ends here
Begin(p, op, id, arg) ==
    LET pend == [pc |-> "read", op |-> op, id |-> id, arg |-> arg, t |-> now,
                 r |-> NoResult]
        r == Apply(pend, file, now)
    IN  /\ proc[p].pc = "idle"
        /\ proc' = [proc EXCEPT ![p] =
                       [pend EXCEPT !.r = r,
                                    !.pc = IF r.outcome = "ok" THEN "read" ELSE "done"]]
        /\ chain' = [chain EXCEPT !.T.order = Append(@, <<"read", p>>)]
        /\ UNCHANGED <<file, xfile, now, last>>

BeginCreate ==
    \E p \in Procs, input \in RaceCreateInputs : Begin(p, "create", 0, input)

BeginUpdate ==
    \E p \in Procs, id \in IdArgs(Stored), updates \in DescriptionUpdates :
        Begin(p, "update", id, updates)

\* the invocation writes and returns
Commit ==
    \E p \in Procs :
        /\ proc[p].pc = "read"
        /\ file' = written(file, proc[p])
        /\ last' = [op |-> proc[p].op, id |-> proc[p].id, arg |-> proc[p].arg,
                    outcome |-> proc[p].r.outcome, writes |-> proc[p].r.writes,
                    res |-> proc[p].r.res]
        /\ proc' = [proc EXCEPT ![p].pc = "done"]
        /\ UNCHANGED <<xfile, now>>
        /\ chain' = [chain EXCEPT !.T.order = Append(@, <<"write", p>>)]

NextRace ==
    \/ Tick
    \/ BeginCreate
    \/ BeginUpdate
    \/ Commit

SpecRace == InitRace /\ [][NextRace]_vars

----------------------------------------------------------------------------
(* Claims *)

Completed(x) == GetB(x, "completed")

Ids(todos) == {todos[i].id : i \in 1..Len(todos)}

\* the record an operation called with id resolves to: the one getById returns
Target(todos, id) == todos[findIndex(todos, id)]

\* the step is a call of one of ops (the clock stands still during a call)
Calls(ops) == last'.op \in ops /\ now' = now

\* the step left the data file alone
NoWrite == last'.writes = 0 /\ file' = file

\* C1: in every state reached by create, complete, uncomplete, update of the
\* description, delete and clearCompleted, a task has completedAt exactly
\* when its completed is true (so the task re-read after uncomplete has none)
C1_CompletedIffCompletedAt ==
    \A i \in 1..Len(Stored) :
        Completed(Stored[i]) <=> Has(Stored[i], "completedAt")

\* a and b agree on every field other than updatedAt
EqualExceptUpdatedAt(a, b) == DeleteKey(a, "updatedAt") = DeleteKey(b, "updatedAt")

\* C2: for T returned by create, complete(T.id) then uncomplete(T.id) returns
\* an updated record equal to T except for updatedAt, with completed false
\* and no completedAt
C2_RoundTripReturnsT ==
    chain.stage = 3 =>
        /\ EqualExceptUpdatedAt(chain.updated, chain.T)
        /\ ~Completed(chain.updated)
        /\ ~Has(chain.updated, "completedAt")

\* C3: complete on a task that is completed fails with the already-completed
\* error, uncomplete on a task that is not completed fails with the
\* not-completed error, and neither writes nor changes the data file
C3_IllegalTransitionRejected ==
    [][/\ (/\ Calls({"complete"})
           /\ last'.id \in Ids(Stored)
           /\ Completed(Target(Stored, last'.id)))
          => (last'.outcome = "AlreadyCompleted" /\ NoWrite)
       /\ (/\ Calls({"uncomplete"})
           /\ last'.id \in Ids(Stored)
           /\ ~Completed(Target(Stored, last'.id)))
          => (last'.outcome = "NotCompleted" /\ NoWrite)]_vars

C3_Witness ==
    /\ last.op = "complete"
    /\ last.outcome = "AlreadyCompleted"
    /\ \E i \in 1..Len(Stored) : Stored[i].id = last.id /\ Completed(Stored[i])

\* where the object at position i of the collection is after the step (0: it
\* is gone): delete takes out the first object with the id, clearCompleted
\* the completed ones, the other operations keep every position
PosAfter(i) ==
    IF Calls({"delete"}) /\ last'.outcome = "ok"
    THEN LET k == findIndex(Stored, last'.id)
         IN  IF i < k THEN i ELSE IF i = k THEN 0 ELSE i - 1
    ELSE IF Calls({"clearCompleted"})
    THEN IF Completed(Stored[i]) THEN 0
         ELSE Cardinality({j \in 1..i : ~Completed(Stored[j])})
    ELSE i

Succeeded(op) == Calls({op}) /\ last'.outcome = "ok"

\* the completed flag of every task that stays changes only as allowed
FlagChangesOnlyBy(Allowed(_)) ==
    \A i \in 1..Len(Stored) :
        LET j == PosAfter(i)
        IN  (j # 0 /\ Completed(Stored'[j]) # Completed(Stored[i]))
                => Allowed(Completed(Stored'[j]))

C5_AbsentIdNotFound ==
    [][(/\ Calls({"getById", "update", "delete", "complete", "uncomplete"})
        /\ \A i \in 1..Len(Stored) : Stored[i].id # last'.id)
       => (last'.outcome = "NotFound" /\ NoWrite)]_vars

C5_Witness ==
    /\ last.op = "delete"
    /\ last.outcome = "NotFound"
    /\ Len(Stored) > 0
    /\ \A i \in 1..Len(Stored) : Stored[i].id # last.id

\* C6: the id create assigns is the id of no task already in the collection,
\* also when the clock has not advanced since the create before
C6_CreatedIdIsNew ==
    [][Succeeded("create") => last'.res.id \notin Ids(Stored)]_vars

\* C7: after any sequence of operations, import included, no two tasks of
\* the persisted collection have the same id
C7_IdsUnique ==
    \A i, j \in 1..Len(Stored) : Stored[i].id = Stored[j].id => i = j

\* the priority create was given, when it is truthy, and the default
PriorityExpected(input) ==
    IF Has(input, "priority") /\ input.priority \in {PRIORITY_HIGH, PRIORITY_LOW}
    THEN input.priority ELSE PRIORITY_MEDIUM

\* C8: create returns and persists a record with completed false, createdAt
\* set, no updatedAt and no completedAt, and the given priority when it is
\* truthy and medium otherwise; a completed value in the input is ignored
C8_CreateDefaults ==
    last.op = "create" =>
        /\ last.outcome = "ok"
        /\ last.res.completed = FALSE
        /\ Has(last.res, "createdAt")
        /\ ~Has(last.res, "updatedAt")
        /\ ~Has(last.res, "completedAt")
        /\ last.res.priority = PriorityExpected(last.arg)
        /\ Len(Stored) > 0
        /\ Stored[Len(Stored)] = last.res

C8_Witness ==
    /\ last.op = "create"
    /\ Has(last.arg, "priority")
    /\ last.arg.priority = "null"
    /\ last.res.priority = PRIORITY_MEDIUM

\* a filter is given when its value is truthy
Given(filters, k) ==
    /\ Has(filters, k)
    /\ k \in StringKeys => filters[k] \notin {"", "null", "undefined"}
    /\ k \in TextKeys => filters[k] \notin {Null, Undefined, <<>>}

\* the one status criterion: completed, or else pending
StatusHolds(x, filters) ==
    IF Has(filters, "completed") /\ filters.completed THEN Completed(x)
    ELSE IF Has(filters, "pending") /\ filters.pending THEN ~Completed(x)
    ELSE TRUE

Satisfies(x, filters) ==
    /\ StatusHolds(x, filters)
    /\ Given(filters, "priority")
        => (Has(x, "priority") /\ x.priority = filters.priority)
    /\ Given(filters, "tag") => (Has(x, "tag") /\ x.tag = filters.tag)

\* C9: filter returns exactly the tasks that satisfy every given criterion
\* (status, priority, tag), in storage order; with no criterion it returns
\* the whole collection
C9_FilterIsConjunction ==
    last.op = "filter" =>
        /\ last.outcome = "ok"
        /\ last.res = Sub(Stored,
                {i \in 1..Len(Stored) : Satisfies(Stored[i], last.arg)}, 1)
        /\ last.arg = EmptyObject => last.res = Stored

C9_Witness ==
    /\ last.op = "filter"
    /\ last.arg = [priority |-> PRIORITY_HIGH, tag |-> TagA]
    /\ Len(last.res) = 1
    /\ \E i \in 1..Len(Stored) :
          /\ GetS(Stored[i], "priority") = PRIORITY_HIGH
          /\ GetT(Stored[i], "tag") # TagA

\* two characters are the same letter
SameLetter(a, b) == a = b \/ {a, b} = {"a", "A"} \/ {a, b} = {"b", "B"}

\* s contains k, letter case ignored
ContainsIgnoringCase(s, k) ==
    \E off \in 0..(Len(s) - Len(k)) :
        \A i \in 1..Len(k) : SameLetter(s[off + i], k[i])

SameIgnoringCase(k1, k2) ==
    Len(k1) = Len(k2) /\ \A i \in 1..Len(k1) : SameLetter(k1[i], k2[i])

Matches(x, k) ==
    \/ ContainsIgnoringCase(x.description, k)
    \/ Has(x, "tag") /\ x.tag # Null /\ ContainsIgnoringCase(x.tag, k)

\* C10: search(k) returns exactly the tasks whose description, or tag when
\* there is one, contains k with letter case ignored, in storage order; k in
\* another letter case gives the same tasks; a task without tag is no error
C10_SearchIgnoresCase ==
    last.op = "search" =>
        /\ last.outcome = "ok"
        /\ last.res = Sub(Stored,
                {i \in 1..Len(Stored) : Matches(Stored[i], last.arg)}, 1)
        /\ \A k \in Keywords :
              SameIgnoringCase(k, last.arg) => search(file, k).res = last.res

C10_Witness ==
    /\ last.op = "search"
    /\ last.arg = <<"A">>
    /\ Len(last.res) = 1
    /\ last.res[1].description = D2
    /\ \E i \in 1..Len(Stored) : GetT(Stored[i], "tag") \in {Null, Undefined}

----------------------------------------------------------------------------
\* the number of completed tasks of a collection
CompletedCount(todos) == Cardinality({i \in 1..Len(todos) : Completed(todos[i])})

\* p is num / den rounded to the nearest integer, halves going up
RoundsHalfUp(p, num, den) ==
    /\ 2 * den * p - den <= 2 * num
    /\ 2 * num < 2 * den * p + den

\* C11: getStats returns total = the number of tasks, completed = the number
\* of tasks whose completed is true, pending = total - completed, and
\* percentage = completed / total * 100 rounded half up when total > 0, 0 when
\* total = 0; so 0 <= percentage <= 100 and completed + pending = total.
C11_StatsCounts ==
    last.op = "getStats" =>
        LET r == last.res
            n == Len(Stored)
            c == CompletedCount(Stored)
        IN  /\ last.outcome = "ok"
            /\ r.total = n
            /\ r.completed = c
            /\ r.pending = n - c
            /\ n > 0 => RoundsHalfUp(r.percentage, c * 100, n)
            /\ n = 0 => r.percentage = 0
            /\ r.percentage \in 0..100
            /\ r.completed + r.pending = r.total

\* the tier of a percentage, by its interval
TierOf(p) ==
    CASE p = 100 -> MOTIVATIONAL.PERFECT
      [] p \in 75..99 -> MOTIVATIONAL.GREAT
      [] p \in 50..74 -> MOTIVATIONAL.HALFWAY
      [] p \in 25..49 -> MOTIVATIONAL.GOOD
      [] p \in 1..24 -> MOTIVATIONAL.START
      [] p = 0 -> MOTIVATIONAL.BEGIN

\* C12: getStats selects the motivational tier by the first matching test
\* on percentage: 100 perfect, >= 75 great, >= 50 halfway, >= 25 good start,
\* > 0 just started, otherwise begin.  All tasks completed (total > 0) gives
\* perfect, 1 of 2 gives halfway, none completed or no tasks gives begin.
C12_TierByFirstMatch ==
    last.op = "getStats" =>
        LET r == last.res
            n == Len(Stored)
            c == CompletedCount(Stored)
        IN  /\ r.motivationalMessage = TierOf(r.percentage)
            /\ n > 0 /\ c = n => r.motivationalMessage = MOTIVATIONAL.PERFECT
            /\ n = 2 /\ c = 1 => r.motivationalMessage = MOTIVATIONAL.HALFWAY
            /\ c = 0 => r.motivationalMessage = MOTIVATIONAL.BEGIN

\* 3 of 4 tasks completed: 75 is great, not halfway
C12_Witness ==
    /\ last.op = "getStats"
    /\ last.res.total = 4
    /\ last.res.percentage = 75
    /\ last.res.motivationalMessage = MOTIVATIONAL.GREAT

\* C13: clearCompleted called twice in a row with no operation in between:
\* the first call reports cleared = the number of completed tasks before it,
\* the second reports cleared = 0 and the same remaining, and the collection
\* persisted after the second call equals the one persisted after the first.
C13_ClearCompletedTwice ==
    /\ chain.stage \in {4, 5} => chain.T.res.cleared = chain.T.completed
    /\ chain.stage = 5 =>
          /\ chain.T.res.cleared = 0
          /\ chain.T.res.remaining = chain.updated.res.remaining
          /\ Parse(chain.T.file) = Parse(chain.updated.file)
          /\ last.op = "clearCompleted" => Stored = Parse(chain.updated.file)

\* a second call after a first one that cleared a task and left a task
C13_Witness ==
    /\ chain.stage = 5
    /\ last.op = "clearCompleted"
    /\ chain.updated.res.cleared > 0
    /\ chain.T.res.remaining > 0

\* C14: after clearCompleted the persisted collection is exactly the
\* subsequence of the prior collection whose tasks have completed false,
\* each unchanged and in the same relative order; cleared + remaining = the
\* size of the prior collection and remaining = the size of the new one.
C14_ClearCompletedKeepsPending ==
    [][Calls({"clearCompleted"}) =>
        LET keep == {i \in 1..Len(Stored) : ~Completed(Stored[i])}
        IN  /\ last'.outcome = "ok"
            /\ Len(Stored') = Cardinality(keep)
            /\ \A i \in keep :
                  Stored'[Cardinality({j \in keep : j <= i})] = Stored[i]
            /\ last'.res.cleared + last'.res.remaining = Len(Stored)
            /\ last'.res.remaining = Len(Stored')]_vars

\* a call that cleared one task and left one
C14_Witness ==
    /\ last.op = "clearCompleted"
    /\ last.res.cleared = 1
    /\ last.res.remaining = 1
    /\ Len(Stored) = 1
    /\ ~Completed(Stored[1])

\* C15: import(tasks) with an array never removes or changes an existing
\* record: the collection afterwards is the prior collection followed by
\* the given records in their given order; imported = the length of tasks
\* and total = the prior size + imported.
C15_ImportAppends ==
    [][(Calls({"import"}) /\ last'.arg.kind = "array") =>
        /\ last'.outcome = "ok"
        /\ Stored' = Stored \o last'.arg.items
        /\ last'.res.imported = Len(last'.arg.items)
        /\ last'.res.total = Len(Stored) + last'.res.imported]_vars

\* a record imported behind an existing, different one
C15_Witness ==
    /\ last.op = "import"
    /\ last.outcome = "ok"
    /\ last.res.imported = 1
    /\ last.res.total = 2
    /\ Stored[1] # Stored[2]

\* C16: import with an argument that is not an array (a string, a plain
\* object) fails with the invalid-import error and leaves the persisted
\* collection unchanged, nothing being written.
C16_ImportRejectsNonArray ==
    [][(Calls({"import"}) /\ last'.arg.kind # "array") =>
        (last'.outcome = "InvalidImport" /\ NoWrite)]_vars

\* a plain object refused while the collection holds a task
C16_Witness ==
    /\ last.op = "import"
    /\ last.arg.kind = "object"
    /\ last.outcome = "InvalidImport"
    /\ Len(Stored) > 0

\* old with the fields of updates laid over it and updatedAt set to the clock
Overlaid(old, updates, t) ==
    [k \in DOMAIN old \cup DOMAIN updates \cup {"updatedAt"} |->
        IF k = "updatedAt" THEN ISO(t)
        ELSE IF k \in DOMAIN updates THEN updates[k] ELSE old[k]]

\* C17: a successful update(id, partialFields) returns old = the target
\* record as it was and updated = that record with partialFields overlaid
\* and updatedAt = now; the persisted collection holds updated at the
\* target's former position, every other record unchanged, same length.
C17_UpdateOverlays ==
    [][Succeeded("update") =>
        LET k == findIndex(Stored, last'.id)
            expected == Overlaid(Stored[k], last'.arg, now)
        IN  /\ k > 0
            /\ last'.res.old = Stored[k]
            /\ last'.res.updated = expected
            /\ Len(Stored') = Len(Stored)
            /\ \A i \in 1..Len(Stored) :
                  Stored'[i] = IF i = k THEN expected ELSE Stored[i]]_vars

\* the second of two records given a new description
C17_Witness ==
    /\ last.op = "update"
    /\ last.outcome = "ok"
    /\ Len(Stored) = 2
    /\ Stored[1].id # last.id
    /\ Stored[2].id = last.id
    /\ last.res.old.description = D1
    /\ Stored[2].description = D2
    /\ Stored[2].updatedAt = ISO(now)

\* C18: a successful delete(id) returns the record that had that id and
\* shrinks the collection by exactly one, the other records unchanged and
\* in order; a later getById(id) fails with not-found when the id was the
\* id of one record only.
C18_DeleteRemovesOne ==
    [][Succeeded("delete") =>
        LET k == findIndex(Stored, last'.id)
        IN  /\ k > 0
            /\ last'.res = Stored[k]
            /\ last'.res.id = last'.id
            /\ Len(Stored') = Len(Stored) - 1
            /\ \A i \in 1..Len(Stored') :
                  Stored'[i] = Stored[IF i < k THEN i ELSE i + 1]
            /\ Cardinality({i \in 1..Len(Stored) : Stored[i].id = last'.id}) = 1
                  => getById(file', last'.id).outcome = "NotFound"]_vars

\* the first of two records deleted, the other one left
C18_Witness ==
    /\ last.op = "delete"
    /\ last.outcome = "ok"
    /\ Len(Stored) = 1
    /\ Stored[1].id # last.id
    /\ last.res.id = last.id

\* a property that is missing reads as undefined
Defined(o, k) == Has(o, k) /\ ~IsUndefined(o, k)

SameFields(a, b) ==
    \A k \in DOMAIN a \cup DOMAIN b :
        /\ Defined(a, k) <=> Defined(b, k)
        /\ Defined(a, k) => a[k] = b[k]

SameCollection(a, b) ==
    /\ Len(a) = Len(b)
    /\ \A i \in 1..Len(a) : SameFields(a[i], b[i])

C20_ReadRejectsNonArray ==
    (chain.stage = 6 /\ last.op = "read") =>
        IF Has(file, "json")
        THEN last.outcome = "ok"
        ELSE last.outcome = "StorageError"

\* C21: when the storage write of a mutating operation fails midway, the
\* persisted file either holds the whole new collection or still holds the
\* prior collection; no later read finds an empty, truncated or partially
\* written collection.
C21_FailedWriteIsAtomic ==
    (chain.stage = 6 /\ last.op = "write" /\ last.outcome = "StorageError") =>
        \/ file = last.arg.prior
        \/ file = Write(last.arg.data)

\* the records of a collection
Records(todos) == {todos[i] : i \in 1..Len(todos)}

\* read A, read B, write A, write B
LostUpdateOrder ==
    <<(<<"read", "A">>), (<<"read", "B">>), (<<"write", "A">>), (<<"write", "B">>)>>

\* C22: when two invocations run a mutating operation on the same data
\* file and interleave as read A, read B, write A, write B, the final file
\* is exactly the collection B wrote, A's change (the task A created) is
\* absent, and neither invocation got an error; nothing in the store
\* prevents this interleaving.
C22_LastWriterWins ==
    (chain.stage = 7 /\ chain.T.order = LostUpdateOrder) =>
        LET a == proc["A"]
            b == proc["B"]
        IN  /\ a.r.outcome = "ok" /\ b.r.outcome = "ok"
            /\ last.outcome = "ok"
            /\ file = b.r.file
            /\ file = Apply(b, chain.T.file, b.t).file
            /\ (/\ a.op = "create"
                /\ a.r.res \notin Records(Parse(chain.T.file))
                /\ b.op = "create" => b.r.res # a.r.res)
               => a.r.res \notin Records(Stored)

\* both invocations created a task and only B's is in the file
C22_Witness ==
    /\ chain.stage = 7
    /\ chain.T.order = LostUpdateOrder
    /\ proc["A"].op = "create"
    /\ proc["B"].op = "create"
    /\ proc["A"].r.res # proc["B"].r.res
    /\ Len(Stored) = Len(Parse(chain.T.file)) + 1
    /\ proc["A"].r.res \notin Records(Stored)
    /\ proc["B"].r.res \in Records(Stored)

\* C23: in every reachable state of the persisted collection, after any
\* sequence of create, update, complete, uncomplete, delete, clearCompleted
\* and import, every task's priority is one of high, medium, low, and is
\* never null or missing.
C23_PriorityAlwaysValid ==
    \A i \in 1..Len(Stored) :
        /\ Has(Stored[i], "priority")
        /\ Stored[i].priority \in {PRIORITY_HIGH, PRIORITY_MEDIUM, PRIORITY_LOW}

\* C24: once a task is created, its createdAt and its id never change for
\* as long as it is in the collection, under any sequence of update,
\* complete and uncomplete calls on it or on other tasks.
C24_CreatedAtAndIdImmutable ==
    [][Calls({"update", "complete", "uncomplete"}) =>
        /\ Len(Stored') = Len(Stored)
        /\ \A i \in 1..Len(Stored) :
              /\ Stored'[i].id = Stored[i].id
              /\ Stored'[i].createdAt = Stored[i].createdAt]_vars

\* the positions before the step of the records that are still there after it
Kept == {i \in 1..Len(Stored) : PosAfter(i) # 0}

\* C25: getAll (and export, its alias) returns the tasks in insertion order
\* after any sequence of operations: create and import append at the end,
\* update, complete and uncomplete keep every task's position, and delete
\* and clearCompleted keep the relative order of the tasks that remain.
C25_InsertionOrder ==
    [][/\ (Calls({"create", "import"}) /\ last'.outcome = "ok") =>
            /\ Len(Stored') >= Len(Stored)
            /\ SubSeq(Stored', 1, Len(Stored)) = Stored
       /\ Calls({"update", "complete", "uncomplete"}) =>
            /\ Len(Stored') = Len(Stored)
            /\ \A i \in 1..Len(Stored) :
                  \/ Stored'[i] = Stored[i]
                  \/ /\ i = findIndex(Stored, last'.id)
                     /\ Stored'[i].id = Stored[i].id
       /\ Calls({"delete", "clearCompleted"}) =>
            /\ Len(Stored') = Cardinality(Kept)
            /\ \A i \in Kept : Stored'[PosAfter(i)] = Stored[i]
            /\ \A i, j \in Kept : i < j => PosAfter(i) < PosAfter(j)
       /\ Calls({"getAll", "export"}) =>
            /\ last'.outcome = "ok"
            /\ last'.res = Stored
            /\ Stored' = Stored]_vars

\* export returned two created tasks, the one created first in front
C25_Witness ==
    /\ last.op = "export"
    /\ Len(last.res) = 2
    /\ Has(last.res[1], "createdAt") /\ Has(last.res[2], "createdAt")
    /\ last.res[1].createdAt = ISO(1)
    /\ last.res[2].createdAt = ISO(2)

\* C26: filter called with both completed = true and pending = true returns
\* only completed tasks (pending is ignored); filter called with completed =
\* false and without pending = true applies no status restriction at all.
C26_CompletedBeforePending ==
    last.op = "filter" =>
        LET both == /\ GetB(last.arg, "completed")
                    /\ GetB(last.arg, "pending")
            neither == /\ Has(last.arg, "completed")
                       /\ ~last.arg.completed
                       /\ ~GetB(last.arg, "pending")
            statusOnly == DOMAIN last.arg \subseteq {"completed", "pending"}
        IN  /\ both => \A i \in 1..Len(last.res) : Completed(last.res[i])
            /\ (both /\ statusOnly) =>
                  last.res = Sub(Stored,
                      {i \in 1..Len(Stored) : Completed(Stored[i])}, 1)
            /\ (neither /\ statusOnly) => last.res = Stored
            /\ neither =>
                  last.res = filter(file, DeleteKey(last.arg, "completed")).res

\* completed and pending both asked for: of a pending and a completed task
\* the completed one is returned
C26_Witness ==
    /\ last.op = "filter"
    /\ last.arg = [completed |-> TRUE, pending |-> TRUE]
    /\ Len(Stored) = 2
    /\ ~Completed(Stored[1])
    /\ Completed(Stored[2])
    /\ last.res = <<Stored[2]>>

\* C27: a successful uncomplete writes the collection to storage twice, and
\* the second write stores exactly the collection a fresh read returns after
\* the first write, so the file content after the second write is identical
\* to the content after the first; every other successful mutating
\* operation writes exactly once.
C27_UncompleteWritesTwice ==
    [][/\ Succeeded("uncomplete") =>
            LET first == update(file, now, last'.id, [completed |-> FALSE])
            IN  /\ last'.writes = 2
                /\ first.outcome = "ok"
                /\ file' = Write(Read(first.file))
                /\ file' = first.file
       /\ (\/ Succeeded("create") \/ Succeeded("update") \/ Succeeded("delete")
           \/ Succeeded("complete") \/ Succeeded("clearCompleted")
           \/ Succeeded("import"))
            => last'.writes = 1]_vars

\* an uncomplete that succeeded on a task that had a completedAt
C27_Witness ==
    /\ last.op = "uncomplete"
    /\ last.outcome = "ok"
    /\ last.writes = 2
    /\ Has(last.res.old, "completedAt")
    /\ ~Completed(Target(Stored, last.id))

\* C28: getStats reports percentage = 100 and the perfect tier only when
\* total > 0 and every task is completed, and the begin tier (percentage =
\* 0) only when no task is completed; the rounding never lifts an incomplete
\* collection to 100 nor drops a collection with a completed task to 0.
C28_ExtremesOnlyWhenExact ==
    last.op = "getStats" =>
        LET r == last.res
            n == Len(Stored)
            c == CompletedCount(Stored)
        IN  /\ (r.percentage = 100
                    \/ r.motivationalMessage = MOTIVATIONAL.PERFECT)
                  => (n > 0 /\ c = n)
            /\ (r.percentage = 0
                    \/ r.motivationalMessage = MOTIVATIONAL.BEGIN)
                  => c = 0

\* the positions of the records with the id, and the first of them
WithId(todos, id) == {i \in 1..Len(todos) : todos[i].id = id}

FirstWithId(todos, id) ==
    CHOOSE i \in WithId(todos, id) : \A j \in WithId(todos, id) : i <= j

\* C29: when several tasks share one id, getById, update, delete, complete
\* and uncomplete all act on the first task with that id in storage order
\* and leave the later ones untouched; complete checks the completed flag
\* of the same record that update then modifies.
C29_ActsOnFirstWithId ==
    [][(/\ Calls({"getById", "update", "delete", "complete", "uncomplete"})
        /\ WithId(Stored, last'.id) # {}) =>
        LET k == FirstWithId(Stored, last'.id)
        IN  /\ Calls({"getById"}) =>
                  (last'.outcome = "ok" /\ last'.res = Stored[k] /\ Stored' = Stored)
            /\ Calls({"complete"}) =>
                  (last'.outcome = "AlreadyCompleted" <=> Completed(Stored[k]))
            /\ Calls({"uncomplete"}) =>
                  (last'.outcome = "NotCompleted" <=> ~Completed(Stored[k]))
            /\ (Succeeded("update") \/ Succeeded("complete")
                    \/ Succeeded("uncomplete")) =>
                  /\ last'.res.old = Stored[k]
                  /\ Len(Stored') = Len(Stored)
                  /\ Has(Stored'[k], "updatedAt")
                  /\ Stored'[k].updatedAt = ISO(now)
                  /\ \A i \in 1..Len(Stored) : i # k => Stored'[i] = Stored[i]
            /\ Succeeded("complete") => Completed(Stored'[k])
            /\ Succeeded("uncomplete") => ~Completed(Stored'[k])
            /\ Succeeded("delete") =>
                  /\ last'.res = Stored[k]
                  /\ Len(Stored') = Len(Stored) - 1
                  /\ \A i \in 1..Len(Stored') :
                        Stored'[i] = Stored[IF i < k THEN i ELSE i + 1]]_vars

\* two tasks with one id: complete marked the first and left the second
C29_Witness ==
    /\ last.op = "complete"
    /\ last.outcome = "ok"
    /\ Len(Stored) = 2
    /\ Stored[1].id = last.id
    /\ Stored[2].id = last.id
    /\ Completed(Stored[1])
    /\ ~Completed(Stored[2])
    /\ ~Has(Stored[2], "updatedAt")

\* C30: getAll, getById, filter, search, getStats and export never write to
\* storage: the persisted collection after each of them, whether it returns
\* or fails, is identical to the one before.
C30_ReadsNeverWrite ==
    [][Calls({"getAll", "getById", "filter", "search", "getStats", "export"})
        => NoWrite]_vars

\* getById failed on a collection of two tasks, which is still there
C30_Witness ==
    /\ last.op = "getById"
    /\ last.outcome = "NotFound"
    /\ last.writes = 0
    /\ Len(Stored) = 2

====
